---- MODULE Spec2Model ----
(***************************************************************************)
(* Model of the fitserver relay pipeline (an Express proxy in front of the *)
(* OpenRouter chat-completions API).  The repository holds six revisions   *)
(* of the same server.js; the model carries the revision as the variable   *)
(* rev and translates, per revision, the CORS middleware, the payload      *)
(* normalizer, the upstream call (plain fetch, fetchWithTimeoutAndRetry or *)
(* the HTTP/2 client) and the response classifier.                         *)
(*                                                                         *)
(* Runtime assumed: Node 18+, i.e. global fetch and AbortController exist  *)
(* (the polyfill fallbacks of the source are not taken).                   *)
(*                                                                         *)
(* Specifications: Spec (one request, the whole input sets), FairSpec      *)
(* (Spec with the scheduling Node guarantees, for liveness) and            *)
(* SpecConcurrent (two requests in flight, a part of the input sets).      *)
(***************************************************************************)
EXTENDS Integers, Sequences, FiniteSets, TLC

VARIABLES rev, key, rq, calls

vars == <<rev, key, rq, calls>>

(***************************************************************************)
(* Bounds of the model (not program constants).                            *)
(***************************************************************************)
MaxBodyKeys == 1
MaxChunks == 1

(***************************************************************************)
(* Program constants.                                                      *)
(***************************************************************************)
MaxRetries == 1

(***************************************************************************)
(* The revisions.  server1 / server2 are the first and the second          *)
(* server.js concatenated in src/server.js.                                *)
(***************************************************************************)
Revisions == {"part_000", "part_003", "server1", "server2", "part_001", "part_002"}

Retrying(v) == v \in {"server1", "part_001"}

UsesHttp2(v) == v = "part_002"

ClassifiesHtml(v) == v \in {"part_001", "part_002", "server2"}

AllowList(v) == v \in {"server1", "part_001"}

EchoCors(v) == v \in {"server2", "part_002"}

PreviewLen(v) == CASE v = "part_001" -> 2000
                   [] v = "server2" -> 1000
                   [] v = "part_002" -> 1200
                   [] OTHER -> 0

(***************************************************************************)
(* JavaScript values: a pair <<type tag, literal>>.  Numbers are kept as   *)
(* their decimal literal (the code does no arithmetic on them), objects    *)
(* as functions from property names to values, strings either as a short   *)
(* literal ("str") or as a run-length text ("text", see below).            *)
(***************************************************************************)
Undefined == <<"undefined", "">>

Null == <<"null", "">>

Str(s) == <<"str", s>>

Num(s) == <<"num", s>>

Bool(s) == <<"bool", s>>

Arr(s) == <<"arr", s>>

Obj(f) == <<"obj", f>>

Text(t) == <<"text", t>>

\* ToBoolean of a value: what `!v`, `v || w` and `if (v)` test.
Truthy(v) == CASE v[1] = "undefined" -> FALSE
               [] v[1] = "null" -> FALSE
               [] v[1] = "str" -> v[2] # ""
               [] v[1] = "text" -> v[2] # <<>>
               [] v[1] = "num" -> v[2] \notin {"0", "NaN"}
               [] v[1] = "bool" -> v[2] = "true"
               [] OTHER -> TRUE

\* a || b
JsOr(a, b) == IF Truthy(a) THEN a ELSE b

\* typeof v === "number"
IsNumber(v) == v[1] = "num"

\* String(v)
StringOf(v) == CASE v[1] \in {"str", "num", "bool"} -> v[2]
                 [] v[1] = "null" -> "null"
                 [] v[1] = "undefined" -> "undefined"
                 [] v[1] = "arr" -> IF v[2] = <<>> THEN "" ELSE "[object Object]"
                 [] OTHER -> "[object Object]"

\* o.k : undefined when the property is absent
Get(o, k) == IF k \in DOMAIN o THEN o[k] ELSE Undefined

\* o.k = v
Put(o, k, v) == [x \in DOMAIN o \cup {k} |-> IF x = k THEN v ELSE o[x]]

EmptyObj == [x \in {} |-> Undefined]

(***************************************************************************)
(* Texts of unbounded length (upstream bodies): a sequence of runs         *)
(* <<character, count>>, adjacent runs holding different characters.       *)
(***************************************************************************)
RECURSIVE TLen(_)
TLen(t) == IF t = <<>> THEN 0 ELSE t[1][2] + TLen(Tail(t))

\* t.slice(0, k)
RECURSIVE Slice0(_, _)
Slice0(t, k) == IF t = <<>> \/ k <= 0 THEN <<>>
                ELSE IF t[1][2] <= k THEN <<t[1]>> \o Slice0(Tail(t), k - t[1][2])
                ELSE << <<t[1][1], k>> >>

IsWs(c) == c = " "

RECURSIVE TrimStart(_)
TrimStart(t) == IF t # <<>> /\ IsWs(t[1][1]) THEN TrimStart(Tail(t)) ELSE t

RECURSIVE TrimEnd(_)
TrimEnd(t) == IF t # <<>> /\ IsWs(t[Len(t)][1]) THEN TrimEnd(SubSeq(t, 1, Len(t) - 1)) ELSE t

\* t.trim()
Trim(t) == TrimEnd(TrimStart(t))

\* a + b on texts
TConcat(a, b) == IF a = <<>> THEN b
                 ELSE IF b = <<>> THEN a
                 ELSE IF a[Len(a)][1] = b[1][1]
                      THEN SubSeq(a, 1, Len(a) - 1) \o << <<b[1][1], a[Len(a)][2] + b[1][2]>> >> \o Tail(b)
                      ELSE a \o b

\* variant: the text is tested without trim()
HtmlShaped_NoTrim(t) == t # <<>> /\ t[1][1] = "<"

\* trimmed && trimmed[0] === "<"
HtmlShaped(t) == LET trimmed == Trim(t) IN trimmed # <<>> /\ trimmed[1][1] = "<"

(***************************************************************************)
(* JSON.parse over the alphabet of the modelled texts (space, <, {, }, x,  *)
(* 0): the only JSON texts are "{}" (with optional inner space) and "0",   *)
(* each with optional surrounding space; everything else is a SyntaxError. *)
(***************************************************************************)
JsonParse(t) ==
    LET s == Trim(t) IN
    IF \/ s = << <<"{", 1>>, <<"}", 1>> >>
       \/ (Len(s) = 3 /\ s[1] = <<"{", 1>> /\ IsWs(s[2][1]) /\ s[3] = <<"}", 1>>)
    THEN [ok |-> TRUE, value |-> Obj(EmptyObj)]
    ELSE IF s = << <<"0", 1>> >>
    THEN [ok |-> TRUE, value |-> Num("0")]
    ELSE [ok |-> FALSE, value |-> Undefined]

(***************************************************************************)
(* Inputs.  With several requests in flight (SpecConcurrent) each input is *)
(* drawn from a part of its set, so that the interleavings of two requests *)
(* can be enumerated; with one request from the whole set.                 *)
(***************************************************************************)
Concurrent == Cardinality(DOMAIN rq) > 1

Methods == IF Concurrent THEN {"POST", "OPTIONS"} ELSE {"GET", "POST", "OPTIONS"}

Paths == IF Concurrent THEN {"/api/myapi"} ELSE {"/api/myapi", "/_health"}

ALLOWED_ORIGINS == {"https://fitnessmate.netlify.app", "http://localhost:5500", "http://127.0.0.1:5500"}

Origins == IF Concurrent THEN {Str("https://fitnessmate.netlify.app")}
           ELSE {Undefined, Str("https://fitnessmate.netlify.app"), Str("https://evil.example"), Str("null")}

RequestedHeaders == IF Concurrent THEN {Undefined} ELSE {Undefined, Str("x-fitmap-ignore-quota")}

EnvKeys == {Undefined, Str(""), Str("sk-or-1")}

BodyKeys == {"model", "messages", "prompt", "max_tokens", "temperature", "image_url", "image_base64"}

BodyVals == [model |-> {Str(""), Str("m")},
             messages |-> {Null, Arr(<<[role |-> "system", content |-> "s"]>>)},
             prompt |-> {Str(""), Str("hi"), Num("7")},
             max_tokens |-> {Num("0"), Num("50")},
             temperature |-> {Num("0"), Num("1.5"), Str("hot")},
             image_url |-> {Str(""), Str("u")},
             image_base64 |-> {Bool("false"), Str("b")}]

Bodies == IF Concurrent THEN {[model |-> Str("m")], [prompt |-> Str("hi")]}
          ELSE UNION {{b \in [K -> UNION {BodyVals[k] : k \in K}] : \A k \in K : b[k] \in BodyVals[k]} :
                      K \in {S \in SUBSET BodyKeys : Cardinality(S) <= MaxBodyKeys}}

Statuses == IF Concurrent THEN {200, 503} ELSE {200, 201, 304, 429, 503}

Texts == IF Concurrent THEN { << <<"0", 1>> >> } ELSE
         { <<>>,
           << <<" ", 2>> >>,
           << <<" ", 1>>, <<"{", 1>>, <<" ", 1>>, <<"}", 1>> >>,
           << <<"0", 1>> >>,
           << <<"x", 2500>> >>,
           << <<"x", 1>>, <<"<", 1>> >>,
           << <<"<", 1>>, <<"x", 4>> >>,
           << <<" ", 2>>, <<"<", 1>>, <<"x", 2500>> >> }

\* A fetch Response: status, and the text() of its body (readable = FALSE:
\* reading the body fails, text() rejects).
UpstreamResponses == [status : Statuses, readable : {TRUE}, text : Texts]
                     \cup (IF Concurrent THEN {}
                           ELSE [status : Statuses, readable : {FALSE}, text : {<<>>}])

NetErrors == IF Concurrent THEN {[name |-> "TypeError", message |-> "fetch failed"]}
             ELSE {[name |-> "TypeError", message |-> "fetch failed"],
                   [name |-> "Error", message |-> "ECONNRESET"]}

AbortError == [name |-> "AbortError", message |-> "This operation was aborted"]

\* String(err) of an Error object
StringOfErr(e) == e.name \o ": " \o e.message


(***************************************************************************)
(* Ingress Filter: the CORS middleware of each revision.  Response headers *)
(* are a function from header names to strings.                            *)
(***************************************************************************)
LongAllowHeaders == "Content-Type, Authorization, X-Title, HTTP-Referer, X-Requested-With"

EchoDefaultAllowHeaders == "Content-Type, Authorization, X-Title, HTTP-Referer, X-Requested-With, x-fitmap-ignore-quota"

ExposeHeaders == [h \in {"Access-Control-Expose-Headers"} |-> "Content-Length, Content-Type"]

CloseHeaders == [h \in {"Connection", "Keep-Alive"} |->
                    IF h = "Connection" THEN "close" ELSE "timeout=5, max=0"]

\* part_000 / part_003: open wildcard
WildcardCors(v) ==
    [h \in {"Access-Control-Allow-Origin", "Access-Control-Allow-Methods", "Access-Control-Allow-Headers"} |->
        CASE h = "Access-Control-Allow-Origin" -> "*"
          [] h = "Access-Control-Allow-Methods" -> "GET,POST,OPTIONS"
          [] OTHER -> IF v = "part_000" THEN "Content-Type, Authorization" ELSE LongAllowHeaders]
    @@ (IF v = "part_000" THEN EmptyObj ELSE ExposeHeaders)

\* variant: credentials are enabled in both branches
AllowListCors_AlwaysCredentials(origin) ==
    [h \in {"Access-Control-Allow-Origin", "Access-Control-Allow-Credentials"} |->
        IF h = "Access-Control-Allow-Credentials" THEN "true"
        ELSE IF Truthy(origin) /\ origin[2] \in ALLOWED_ORIGINS THEN origin[2] ELSE "*"]
    @@ [h \in {"Access-Control-Allow-Methods", "Access-Control-Allow-Headers"} |->
          IF h = "Access-Control-Allow-Methods" THEN "GET,POST,OPTIONS" ELSE LongAllowHeaders]
    @@ ExposeHeaders @@ CloseHeaders

\* server1 / part_001: allow-list with wildcard fallback
AllowListCors(origin) ==
    (IF Truthy(origin) /\ origin[2] \in ALLOWED_ORIGINS
     THEN [h \in {"Access-Control-Allow-Origin", "Access-Control-Allow-Credentials"} |->
              IF h = "Access-Control-Allow-Origin" THEN origin[2] ELSE "true"]
     ELSE [h \in {"Access-Control-Allow-Origin"} |-> "*"])
    @@ [h \in {"Access-Control-Allow-Methods", "Access-Control-Allow-Headers"} |->
          IF h = "Access-Control-Allow-Methods" THEN "GET,POST,OPTIONS" ELSE LongAllowHeaders]
    @@ ExposeHeaders @@ CloseHeaders

\* server2 / part_002: echo of origin and of the requested headers
EchoingCors(v, origin, requested) ==
    LET o == JsOr(origin, Str("*")) IN
    [h \in {"Access-Control-Allow-Origin", "Access-Control-Allow-Credentials",
            "Access-Control-Allow-Methods", "Access-Control-Allow-Headers"} |->
        CASE h = "Access-Control-Allow-Origin" -> IF o[2] = "null" THEN "*" ELSE o[2]
          [] h = "Access-Control-Allow-Credentials" -> "true"
          [] h = "Access-Control-Allow-Methods" -> "GET,POST,OPTIONS,PUT,DELETE"
          [] OTHER -> IF Truthy(requested) /\ requested[1] = "str" THEN requested[2]
                      ELSE EchoDefaultAllowHeaders]
    @@ ExposeHeaders @@ (IF v = "part_002" THEN CloseHeaders ELSE EmptyObj)

CorsHeaders(v, origin, requested) ==
    IF AllowList(v) THEN AllowListCors(origin)
    ELSE IF EchoCors(v) THEN EchoingCors(v, origin, requested)
    ELSE WildcardCors(v)

\* A client response: res.status(status) then .json(body) / .send(body)
Resp(status, ctype, body) == [status |-> status, ctype |-> ctype, body |-> body]

NoResp == Resp(0, "none", Undefined)

\* if (req.method === "OPTIONS") return res.status(204).send("")
PreflightResponse == Resp(204, "text", Str(""))

(***************************************************************************)
(* Payload Normalizer.                                                     *)
(***************************************************************************)
DefaultModel(v) == IF v \in {"part_000", "part_003"} THEN "openai/gpt-4.1-mini"
                   ELSE "google/gemini-2.5-flash"

\* the test that selects the pass-through branch
LooksLikePayload(v, body) ==
    IF v = "part_000" THEN Truthy(Get(body, "messages"))
    ELSE Truthy(Get(body, "messages")) \/ Truthy(Get(body, "model"))

\* variant: temperature: body.temperature || 0.2
Synthesized_TemperatureOr(v, body) ==
    LET base == [k \in {"model", "messages", "max_tokens", "temperature"} |->
                   CASE k = "model" -> JsOr(Get(body, "model"), Str(DefaultModel(v)))
                     [] k = "messages" ->
                          Arr(<<[role |-> "user",
                                 content |-> StringOf(JsOr(Get(body, "prompt"), Str("Hello")))]>>)
                     [] k = "max_tokens" -> JsOr(Get(body, "max_tokens"), Num("300"))
                     [] OTHER -> JsOr(Get(body, "temperature"), Num("0.2"))]
        withUrl == IF v # "part_000" /\ Truthy(Get(body, "image_url"))
                   THEN Put(base, "image_url", Get(body, "image_url")) ELSE base
    IN  IF v # "part_000" /\ Truthy(Get(body, "image_base64"))
        THEN Put(withUrl, "image_base64", Get(body, "image_base64")) ELSE withUrl

Synthesized(v, body) ==
    LET base == [k \in {"model", "messages", "max_tokens", "temperature"} |->
                   CASE k = "model" -> JsOr(Get(body, "model"), Str(DefaultModel(v)))
                     [] k = "messages" ->
                          Arr(<<[role |-> "user",
                                 content |-> StringOf(JsOr(Get(body, "prompt"), Str("Hello")))]>>)
                     [] k = "max_tokens" -> JsOr(Get(body, "max_tokens"), Num("300"))
                     [] OTHER -> IF IsNumber(Get(body, "temperature"))
                                 THEN Get(body, "temperature") ELSE Num("0.2")]
        withUrl == IF v # "part_000" /\ Truthy(Get(body, "image_url"))
                   THEN Put(base, "image_url", Get(body, "image_url")) ELSE base
    IN  IF v # "part_000" /\ Truthy(Get(body, "image_base64"))
        THEN Put(withUrl, "image_base64", Get(body, "image_base64")) ELSE withUrl

\* variant: the pass-through branch fills in a default max_tokens
Normalize_Defaults(v, body) ==
    IF LooksLikePayload(v, body)
    THEN Put(body, "max_tokens", JsOr(Get(body, "max_tokens"), Num("300")))
    ELSE Synthesized(v, body)

Normalize(v, body) == IF LooksLikePayload(v, body) THEN body ELSE Synthesized(v, body)

(***************************************************************************)
(* Response Classifier.                                                    *)
(***************************************************************************)
\* upstream.ok
IsOk(status) == status >= 200 /\ status < 300

\* try { data = text ? JSON.parse(text) : null } catch { data = <fallback> }
ParsedOr(text, fallback) ==
    IF text = <<>> THEN Null
    ELSE IF JsonParse(text).ok THEN JsonParse(text).value
    ELSE fallback

HtmlEnvelope(v, status, text) ==
    Obj([ok |-> Bool("false"),
         error |-> Str(CASE v = "part_001" -> "Upstream returned non-JSON (HTML) - see upstreamPreview"
                         [] v = "server2" -> "Upstream returned non-JSON (HTML). See upstreamPreview."
                         [] OTHER -> "Upstream returned non-JSON (HTML). See upstreamPreview"),
         upstreamStatus |-> Num(ToString(status)),
         upstreamPreview |-> Text(Slice0(text, PreviewLen(v)))])

ErrorEnvelope(v, status, text) ==
    Obj([ok |-> Bool("false"),
         error |-> Str(IF v = "server2" THEN "Upstream error" ELSE "Upstream returned error"),
         upstreamStatus |-> Num(ToString(status)),
         upstreamBody |-> Text(text)])

\* variant: a 2xx upstream status is relayed as it is (res.status(upstream.status))
Classify_RelaysStatus(v, status, text) ==
    IF v = "part_000"
    THEN Resp(status, "json", ParsedOr(text, Obj([raw |-> Text(text)])))
    ELSE IF ClassifiesHtml(v) /\ HtmlShaped(text)
    THEN Resp(502, "json", HtmlEnvelope(v, status, text))
    ELSE IF ~IsOk(status)
    THEN IF ClassifiesHtml(v)
         THEN Resp(status, "json", ErrorEnvelope(v, status, text))
         ELSE Resp(status, "text",
                   IF text # <<>> THEN Text(text)
                   ELSE Str("Upstream returned status " \o ToString(status)))
    ELSE IF ClassifiesHtml(v)
    THEN Resp(status, "json", ParsedOr(text, Obj([ok |-> Bool("true"), raw |-> Text(text)])))
    ELSE Resp(status, "json", ParsedOr(text, Obj([raw |-> Text(text)])))

\* variant: every non-2xx upstream status is masked as 502
Classify_Masks(v, status, text) ==
    IF v = "part_000"
    THEN Resp(status, "json", ParsedOr(text, Obj([raw |-> Text(text)])))
    ELSE IF ClassifiesHtml(v) /\ HtmlShaped(text)
    THEN Resp(502, "json", HtmlEnvelope(v, status, text))
    ELSE IF ~IsOk(status)
    THEN IF ClassifiesHtml(v)
         THEN Resp(502, "json", ErrorEnvelope(v, status, text))
         ELSE Resp(502, "text",
                   IF text # <<>> THEN Text(text)
                   ELSE Str("Upstream returned status " \o ToString(status)))
    ELSE IF ClassifiesHtml(v)
    THEN Resp(200, "json", ParsedOr(text, Obj([ok |-> Bool("true"), raw |-> Text(text)])))
    ELSE Resp(200, "json", ParsedOr(text, Obj([raw |-> Text(text)])))

\* the synchronous tail of the handler, after upstreamText is known
Classify(v, status, text) ==
    IF v = "part_000"
    THEN Resp(status, "json", ParsedOr(text, Obj([raw |-> Text(text)])))
    ELSE IF ClassifiesHtml(v) /\ HtmlShaped(text)
    THEN Resp(502, "json", HtmlEnvelope(v, status, text))
    ELSE IF ~IsOk(status)
    THEN IF ClassifiesHtml(v)
         THEN Resp(status, "json", ErrorEnvelope(v, status, text))
         ELSE Resp(status, "text",
                   IF text # <<>> THEN Text(text)
                   ELSE Str("Upstream returned status " \o ToString(status)))
    ELSE IF ClassifiesHtml(v)
    THEN Resp(200, "json", ParsedOr(text, Obj([ok |-> Bool("true"), raw |-> Text(text)])))
    ELSE Resp(200, "json", ParsedOr(text, Obj([raw |-> Text(text)])))

\* the handler's catch (err): res.status(502).json({ error: String(err) })
CaughtResponse(v, e) ==
    Resp(502, "json",
         IF EchoCors(v) THEN Obj([ok |-> Bool("false"), error |-> Str(StringOfErr(e))])
         ELSE Obj([error |-> Str(StringOfErr(e))]))

\* if (!key) return res.status(500).json(...)
MisconfiguredResponse(v) ==
    Resp(500, "json",
         IF EchoCors(v) THEN Obj([ok |-> Bool("false"), error |-> Str("OPENROUTER_API_KEY missing")])
         ELSE Obj([error |-> Str("Server misconfigured: OPENROUTER_API_KEY missing")]))

(***************************************************************************)
(* Upstream Caller: the outbound call.                                     *)
(***************************************************************************)
OpenRouterUrl(v) == IF v = "part_000" THEN "https://api.openrouter.ai/v1/chat/completions"
                    ELSE "https://openrouter.ai/api/v1/chat/completions"

OutboundHeaders(v, k) ==
    [h \in {"Content-Type", "Authorization"} |->
        IF h = "Content-Type" THEN "application/json" ELSE "Bearer " \o k[2]]
    @@ (IF v \in {"server1", "part_001", "part_002"}
        THEN [h \in {"User-Agent"} |-> "fitnessmate-proxy/1.0"] ELSE EmptyObj)

\* variant: payload is one variable of the module, shared by the requests: a
\* retry sends what the request normalized last left in it
OutboundCall_SharedPayload(r, attempt, payload) ==
    LET others == {x \in DOMAIN rq \ {r} : rq[x].payload # EmptyObj} IN
    [req |-> r, attempt |-> attempt, url |-> OpenRouterUrl(rev),
     headers |-> OutboundHeaders(rev, key),
     body |-> IF attempt > 0 /\ others # {} THEN rq[CHOOSE x \in others : TRUE].payload
              ELSE payload]

\* one fetch(url, options) / one HTTP/2 request written to the wire
OutboundCall(r, attempt, payload) ==
    [req |-> r, attempt |-> attempt, url |-> OpenRouterUrl(rev),
     headers |-> OutboundHeaders(rev, key), body |-> payload]

CallsOf(r) == {c \in calls : c.req = r}

\* lastErr = new Error(`Upstream ${resp.status} ...`)
WillRetryError(v, status, attempt) ==
    [name |-> "Error",
     message |-> IF v = "server1"
                 THEN "Upstream " \o ToString(status) \o " - will retry (attempt "
                      \o ToString(attempt + 1) \o ")"
                 ELSE "Upstream " \o ToString(status) \o " (will retry)"]

BodyReadError == [name |-> "TypeError", message |-> "terminated"]

NoError == [name |-> "", message |-> ""]

NoUpstream == [status |-> 0, readable |-> FALSE, text |-> <<>>]

\* how one attempt ended: fetch resolved with a status, or threw
Answered(status) == [kind |-> "status", status |-> status, err |-> NoError]

Threw(e) == [kind |-> "throw", status |-> 0, err |-> e]

\* postHttp2ToOpenRouter's closure: status, chunks, the stream, the timer and
\* the state of the returned promise
NoStream == [status |-> 0, chunks |-> <<>>, n |-> 0, stream |-> "none",
             session |-> "none", timer |-> FALSE, promise |-> "none"]

(***************************************************************************)
(* State of one inbound request.                                           *)
(*   pc     idle -> received -> calling <-> backoff -> reading ->          *)
(*          responded | aborted                                            *)
(*   trace  history of the pipeline states the request went through        *)
(*   outcomes  history: how each fetch attempt ended                       *)
(***************************************************************************)
IdleReq == [pc |-> "idle", method |-> "", path |-> "", origin |-> Undefined,
            reqBody |-> Undefined, hdrs |-> EmptyObj, payload |-> EmptyObj,
            attempt |-> 0, lastErr |-> NoError, timers |-> {}, outcomes |-> <<>>,
            upstream |-> NoUpstream, upstreamText |-> <<>>,
            h2 |-> NoStream, resp |-> NoResp, trace |-> <<>>]

ReqIds == {"r1"}

Init == /\ rev \in Revisions
        /\ key \in EnvKeys
        /\ rq = [r \in ReqIds |-> IdleReq]
        /\ calls = {}

\* two inbound requests, handled concurrently by the same process
InitConcurrent == /\ rev \in Revisions
                  /\ key \in EnvKeys
                  /\ rq = [r \in {"r1", "r2"} |-> IdleReq]
                  /\ calls = {}

\* res.status(..).json/send: the response goes out with the headers set so far
Finish(q, pc, resp) == [q EXCEPT !.pc = pc, !.resp = resp,
                                 !.trace = @ \o <<IF pc = "aborted" THEN "ABORTED" ELSE "RESPONDED">>]

\* const body = req.body || {}
BodyOf(q) == IF Truthy(q.reqBody) THEN q.reqBody[2] ELSE EmptyObj

(***************************************************************************)
(* The CORS middleware and the routing behind it.  Inputs: the method, the *)
(* path, the Origin header, Access-Control-Request-Headers (a header of    *)
(* preflight requests) and the parsed JSON body (of POST requests).        *)
(***************************************************************************)
\* variant: no preflight short-circuit, OPTIONS goes on to the router
Middleware_NoPreflight(q, m, p, o, a, b) ==
    LET q1 == [q EXCEPT !.method = m, !.path = p, !.origin = o, !.reqBody = b,
                        !.hdrs = CorsHeaders(rev, o, a)]
    IN  IF m = "POST" /\ p = "/api/myapi"
        THEN [q1 EXCEPT !.pc = "received", !.trace = <<"RECEIVED">>]
        ELSE IF m = "GET" /\ p = "/_health" /\ rev # "part_000"
        THEN [q1 EXCEPT !.pc = "responded", !.resp = Resp(200, "text", Str("ok"))]
        ELSE [q1 EXCEPT !.pc = "responded", !.resp = Resp(404, "text", Str("Not Found"))]

Middleware(q, m, p, o, a, b) ==
    LET q1 == [q EXCEPT !.method = m, !.path = p, !.origin = o, !.reqBody = b,
                        !.hdrs = CorsHeaders(rev, o, a)]
    IN  IF m = "OPTIONS" THEN [q1 EXCEPT !.pc = "responded", !.resp = PreflightResponse]
        ELSE IF m = "POST" /\ p = "/api/myapi"
        THEN [q1 EXCEPT !.pc = "received", !.trace = <<"RECEIVED">>]
        ELSE IF m = "GET" /\ p = "/_health" /\ rev # "part_000"
        THEN [q1 EXCEPT !.pc = "responded", !.resp = Resp(200, "text", Str("ok"))]
        ELSE [q1 EXCEPT !.pc = "responded", !.resp = Resp(404, "text", Str("Not Found"))]

Ingress(r) ==
    /\ rq[r].pc = "idle"
    /\ \E m \in Methods, p \in Paths, o \in Origins :
         \E a \in IF m = "OPTIONS" THEN RequestedHeaders ELSE {Undefined},
            b \in IF m = "POST" THEN {Obj(x) : x \in Bodies} \cup {Undefined} ELSE {Undefined} :
            rq' = [rq EXCEPT ![r] = Middleware(rq[r], m, p, o, a, b)]
    /\ UNCHANGED <<rev, key, calls>>

(***************************************************************************)
(* POST /api/myapi, from the key check to the first await: key check,      *)
(* normalizer and the first outbound call.                                 *)
(***************************************************************************)
H2Errors == IF Concurrent THEN {[name |-> "Error", message |-> "ECONNRESET"]}
            ELSE {[name |-> "Error", message |-> "ERR_HTTP2_STREAM_ERROR"],
                  [name |-> "Error", message |-> "ECONNRESET"]}

H2TimeoutError == [name |-> "Error", message |-> "Upstream HTTP/2 request timed out"]

\* the inner catch around await postHttp2ToOpenRouter(...)
Http2FailedResponse(e) ==
    Resp(502, "json", Obj([ok |-> Bool("false"), error |-> Str("Upstream HTTP/2 request failed"),
                           detail |-> Str(e.message)]))

StartCall(r, q, payload) ==
    /\ rq' = [rq EXCEPT ![r] =
                [q EXCEPT !.payload = payload, !.attempt = 0, !.pc = "calling",
                          !.timers = IF Retrying(rev) THEN {0} ELSE {},
                          !.h2 = IF UsesHttp2(rev)
                                 THEN [NoStream EXCEPT !.stream = "open", !.session = "open",
                                                       !.timer = TRUE, !.promise = "pending"]
                                 ELSE NoStream,
                          !.trace = @ \o <<"NORMALIZED", "CALLING">>]]
    /\ calls' = calls \cup {OutboundCall(r, 0, payload)}

\* variant: key === undefined (an empty key passes)
KeyMissing_UndefinedOnly(k) == k[1] = "undefined"

\* if (!key)
KeyMissing(k) == ~Truthy(k)

HandlerStart(r) ==
    /\ rq[r].pc = "received"
    /\ IF KeyMissing(key)
       THEN /\ rq' = [rq EXCEPT ![r] = Finish(rq[r], "responded", MisconfiguredResponse(rev))]
            /\ calls' = calls
       ELSE StartCall(r, rq[r], Normalize(rev, BodyOf(rq[r])))
    /\ UNCHANGED <<rev, key>>

\* http2.connect(...) throws: the promise rejects before any request is written
Http2ConnectThrows(r) ==
    /\ rq[r].pc = "received"
    /\ UsesHttp2(rev)
    /\ ~KeyMissing(key)
    /\ \E e \in H2Errors :
         rq' = [rq EXCEPT ![r] =
                  Finish([rq[r] EXCEPT !.payload = Normalize(rev, BodyOf(rq[r])),
                                       !.lastErr = e,
                                       !.trace = @ \o <<"NORMALIZED", "CALLING">>],
                         "aborted", Http2FailedResponse(e))]
    /\ UNCHANGED <<rev, key, calls>>

(***************************************************************************)
(* fetchWithTimeoutAndRetry and the plain fetch of the other revisions.    *)
(***************************************************************************)
\* variant: an exhausted 5xx is thrown as lastErr instead of being returned
AfterResponse_ThrowsExhausted5xx(q, u) ==
    IF Retrying(rev) /\ u.status >= 500 /\ q.attempt < MaxRetries
    THEN [q EXCEPT !.timers = @ \ {q.attempt},
                   !.outcomes = @ \o <<Answered(u.status)>>,
                   !.lastErr = WillRetryError(rev, u.status, q.attempt),
                   !.pc = "backoff", !.trace = @ \o <<"RETRYING">>]
    ELSE IF Retrying(rev) /\ u.status >= 500
    THEN Finish([q EXCEPT !.timers = @ \ {q.attempt}, !.outcomes = @ \o <<Answered(u.status)>>,
                          !.lastErr = WillRetryError(rev, u.status, q.attempt)],
                "aborted", CaughtResponse(rev, WillRetryError(rev, u.status, q.attempt)))
    ELSE [q EXCEPT !.timers = @ \ {q.attempt}, !.outcomes = @ \o <<Answered(u.status)>>,
                   !.upstream = u, !.pc = "reading"]

\* variant: every error status (>= 400) is treated as retryable
AfterResponse_Retries4xx(q, u) ==
    IF Retrying(rev) /\ u.status >= 400 /\ q.attempt < MaxRetries
    THEN [q EXCEPT !.timers = @ \ {q.attempt},
                   !.outcomes = @ \o <<Answered(u.status)>>,
                   !.lastErr = WillRetryError(rev, u.status, q.attempt),
                   !.pc = "backoff", !.trace = @ \o <<"RETRYING">>]
    ELSE [q EXCEPT !.timers = @ \ {q.attempt}, !.outcomes = @ \o <<Answered(u.status)>>,
                   !.upstream = u, !.pc = "reading"]

\* variant: clearTimeout comes after the 5xx test, so the retry path skips it
AfterResponse_KeepsTimerOn5xx(q, u) ==
    IF Retrying(rev) /\ u.status >= 500 /\ q.attempt < MaxRetries
    THEN [q EXCEPT !.outcomes = @ \o <<Answered(u.status)>>,
                   !.lastErr = WillRetryError(rev, u.status, q.attempt),
                   !.pc = "backoff", !.trace = @ \o <<"RETRYING">>]
    ELSE [q EXCEPT !.timers = @ \ {q.attempt}, !.outcomes = @ \o <<Answered(u.status)>>,
                   !.upstream = u, !.pc = "reading"]

\* const resp = await fetch(...) resolved
AfterResponse(q, u) ==
    IF Retrying(rev) /\ u.status >= 500 /\ q.attempt < MaxRetries
    THEN [q EXCEPT !.timers = @ \ {q.attempt},
                   !.outcomes = @ \o <<Answered(u.status)>>,
                   !.lastErr = WillRetryError(rev, u.status, q.attempt),
                   !.pc = "backoff", !.trace = @ \o <<"RETRYING">>]
    ELSE [q EXCEPT !.timers = @ \ {q.attempt}, !.outcomes = @ \o <<Answered(u.status)>>,
                   !.upstream = u, !.pc = "reading"]

FetchResolves(r) ==
    /\ rq[r].pc = "calling"
    /\ ~UsesHttp2(rev)
    /\ \E u \in UpstreamResponses : rq' = [rq EXCEPT ![r] = AfterResponse(rq[r], u)]
    /\ UNCHANGED <<rev, key, calls>>

\* variant: lastErr keeps the first error (lastErr = lastErr || err)
AfterThrow_KeepsFirst(q, e) ==
    LET kept == IF q.lastErr = NoError THEN e ELSE q.lastErr IN
    IF Retrying(rev) /\ q.attempt < MaxRetries
    THEN [q EXCEPT !.timers = @ \ {q.attempt}, !.outcomes = @ \o <<Threw(e)>>,
                   !.lastErr = kept, !.pc = "backoff", !.trace = @ \o <<"RETRYING">>]
    ELSE Finish([q EXCEPT !.timers = @ \ {q.attempt}, !.outcomes = @ \o <<Threw(e)>>,
                          !.lastErr = kept],
                "aborted", CaughtResponse(rev, kept))

\* variant: the catch block backs off and continues after the last attempt too
AfterThrow_BackoffAfterLast(q, e) ==
    IF Retrying(rev)
    THEN [q EXCEPT !.timers = @ \ {q.attempt}, !.outcomes = @ \o <<Threw(e)>>,
                   !.lastErr = e, !.pc = "backoff", !.trace = @ \o <<"RETRYING">>]
    ELSE Finish([q EXCEPT !.timers = @ \ {q.attempt}, !.outcomes = @ \o <<Threw(e)>>,
                          !.lastErr = e],
                "aborted", CaughtResponse(rev, e))

\* await fetch(...) threw: the catch block of the loop, or the handler's catch
AfterThrow(q, e) ==
    IF Retrying(rev) /\ q.attempt < MaxRetries
    THEN [q EXCEPT !.timers = @ \ {q.attempt}, !.outcomes = @ \o <<Threw(e)>>,
                   !.lastErr = e, !.pc = "backoff", !.trace = @ \o <<"RETRYING">>]
    ELSE Finish([q EXCEPT !.timers = @ \ {q.attempt}, !.outcomes = @ \o <<Threw(e)>>,
                          !.lastErr = e],
                "aborted", CaughtResponse(rev, e))

FetchRejects(r) ==
    /\ rq[r].pc = "calling"
    /\ ~UsesHttp2(rev)
    /\ \E e \in NetErrors : rq' = [rq EXCEPT ![r] = AfterThrow(rq[r], e)]
    /\ UNCHANGED <<rev, key, calls>>

\* setTimeout(() => controller.abort(), timeoutMs) fires: the fetch rejects
AttemptTimesOut(r) ==
    /\ rq[r].pc = "calling"
    /\ rq[r].attempt \in rq[r].timers
    /\ rq' = [rq EXCEPT ![r] = AfterThrow(rq[r], AbortError)]
    /\ UNCHANGED <<rev, key, calls>>

\* the backoff wait is over: next iteration of the loop
BackoffElapses(r) ==
    /\ rq[r].pc = "backoff"
    /\ rq' = [rq EXCEPT ![r] =
                [rq[r] EXCEPT !.attempt = @ + 1, !.timers = @ \cup {rq[r].attempt + 1},
                              !.pc = "calling", !.trace = @ \o <<"CALLING">>]]
    /\ calls' = calls \cup {OutboundCall(r, rq[r].attempt + 1, rq[r].payload)}
    /\ UNCHANGED <<rev, key>>

\* the handler once upstreamText is known: classification is synchronous
Classified(q, text) ==
    Finish([q EXCEPT !.upstreamText = text, !.trace = @ \o <<"CLASSIFYING">>],
           "responded", Classify(rev, q.upstream.status, text))

\* await upstream.text()  (.catch(() => "") in all revisions but part_000)
AfterText(q) ==
    IF q.upstream.readable
    THEN Classified(q, q.upstream.text)
    ELSE IF rev = "part_000"
    THEN Finish([q EXCEPT !.lastErr = BodyReadError], "aborted", CaughtResponse(rev, BodyReadError))
    ELSE Classified(q, <<>>)

\* upstream.text() settles and the rest of the handler runs
ReadBody(r) ==
    /\ rq[r].pc = "reading"
    /\ rq' = [rq EXCEPT ![r] = AfterText(rq[r])]
    /\ UNCHANGED <<rev, key, calls>>

(***************************************************************************)
(* postHttp2ToOpenRouter (part_002): the callbacks of the stream, of the   *)
(* session and of the timer.  A promise settles once: resolve / reject on  *)
(* a settled promise do nothing.  The handler continues when it settles.   *)
(***************************************************************************)
H2Chunks == IF Concurrent THEN { << <<" ", 1>> >> } ELSE
            { << <<"<", 1>>, <<"x", 2500>> >>,
              << <<" ", 1>> >>,
              << <<"{", 1>>, <<"}", 1>> >> }

\* resolve({ status: status || 200, text: chunks }) and the handler's continuation
Resolved(q) ==
    IF q.h2.promise # "pending" THEN q
    ELSE Classified([q EXCEPT !.h2.promise = "resolved",
                              !.upstream = [status |-> IF q.h2.status # 0 THEN q.h2.status ELSE 200,
                                            readable |-> TRUE, text |-> q.h2.chunks]],
                    q.h2.chunks)

\* reject(err) and the handler's inner catch
Rejected(q, e) ==
    IF q.h2.promise # "pending" THEN q
    ELSE Finish([q EXCEPT !.h2.promise = "rejected", !.lastErr = e],
                "aborted", Http2FailedResponse(e))

\* req.on("response", ...)
H2Response(r) ==
    /\ rq[r].h2.stream = "open"
    /\ rq[r].h2.status = 0
    /\ \E st \in Statuses : rq' = [rq EXCEPT ![r].h2.status = st]
    /\ UNCHANGED <<rev, key, calls>>

\* req.on("data", ...): DATA frames follow the response HEADERS
H2Data(r) ==
    /\ rq[r].h2.stream = "open"
    /\ rq[r].h2.status # 0
    /\ rq[r].h2.n < MaxChunks
    /\ \E c \in H2Chunks :
         rq' = [rq EXCEPT ![r].h2.chunks = TConcat(@, c), ![r].h2.n = @ + 1]
    /\ UNCHANGED <<rev, key, calls>>

\* req.on("end", ...) twice: resolve, then clearTimer
H2End(r) ==
    /\ rq[r].h2.stream \in {"open", "closed"}
    /\ rq' = [rq EXCEPT ![r] =
                Resolved([rq[r] EXCEPT !.h2.stream = "ended", !.h2.session = "closed",
                                       !.h2.timer = FALSE])]
    /\ UNCHANGED <<rev, key, calls>>

\* req.on("error", ...) twice: reject, then clearTimer
H2StreamError(r) ==
    /\ rq[r].h2.stream \in {"open", "closed"}
    /\ \E e \in H2Errors :
         rq' = [rq EXCEPT ![r] =
                  Rejected([rq[r] EXCEPT !.h2.stream = "errored", !.h2.session = "closed",
                                         !.h2.timer = FALSE], e)]
    /\ UNCHANGED <<rev, key, calls>>

\* client.on("error", ...): the timer stays armed
H2ClientError(r) ==
    /\ rq[r].h2.session = "open"
    /\ \E e \in H2Errors :
         rq' = [rq EXCEPT ![r] = Rejected([rq[r] EXCEPT !.h2.session = "closed"], e)]
    /\ UNCHANGED <<rev, key, calls>>

\* the setTimeout callback: req.close(), client.close(), reject
H2Timeout(r) ==
    /\ rq[r].h2.timer
    /\ rq' = [rq EXCEPT ![r] =
                Rejected([rq[r] EXCEPT !.h2.timer = FALSE, !.h2.session = "closed",
                                       !.h2.stream = IF @ = "open" THEN "closed" ELSE @],
                         H2TimeoutError)]
    /\ UNCHANGED <<rev, key, calls>>

Next == \E r \in DOMAIN rq :
          \/ Ingress(r)
          \/ HandlerStart(r)
          \/ Http2ConnectThrows(r)
          \/ FetchResolves(r)
          \/ FetchRejects(r)
          \/ AttemptTimesOut(r)
          \/ BackoffElapses(r)
          \/ ReadBody(r)
          \/ H2Response(r)
          \/ H2Data(r)
          \/ H2End(r)
          \/ H2StreamError(r)
          \/ H2ClientError(r)
          \/ H2Timeout(r)

Spec == Init /\ [][Next]_vars

(***************************************************************************)
(* Scheduling.  What Node guarantees to run: the handler behind next(),    *)
(* and every timer that is still armed when its delay is over (the abort   *)
(* timer of an attempt, the backoff wait, the HTTP/2 timer).  Whatever the *)
(* upstream does (answer, fail, deliver the body) is not guaranteed.       *)
(***************************************************************************)
Scheduled(r) == /\ WF_vars(HandlerStart(r))
                /\ WF_vars(AttemptTimesOut(r))
                /\ WF_vars(BackoffElapses(r))
                /\ WF_vars(H2Timeout(r))

FairSpec == Spec /\ \A r \in ReqIds : Scheduled(r)

SpecConcurrent == InitConcurrent /\ [][Next]_vars

(***************************************************************************)
(* Properties.                                                             *)
(***************************************************************************)
Terminal(q) == q.pc \in {"responded", "aborted"}

\* the text, once leading and trailing whitespace is removed, begins with '<'
BeginsWithLt(t) == \E i \in 1..Len(t) : /\ t[i][1] = "<"
                                       /\ \A j \in 1..(i - 1) : t[j][1] = " "

NumCalls(r) == Cardinality(CallsOf(r))

Both503(q) == q.outcomes = <<Answered(503), Answered(503)>>

\* C1 as stated: in the retrying revisions, two 503 answers in a row give
\* exactly 2 outbound calls and a final client response 502 with a JSON error.
C1_AsStated ==
    \A r \in DOMAIN rq :
        (Retrying(rev) /\ Both503(rq[r]) /\ Terminal(rq[r]))
        => /\ NumCalls(r) = 2
           /\ rq[r].resp.status = 502
           /\ rq[r].resp.ctype = "json"

\* C1 amended: in the retrying revisions, two 503 answers in a row give exactly
\* 2 outbound calls, and the second 503 response is returned by the retry loop
\* and classified like any non-2xx response: the client gets status 503 (JSON
\* envelope with upstreamStatus 503 in part_001, text/plain in server1), and
\* 502 only when part_001 finds the 503 body HTML-shaped.
C1_Exhausted5xxIsRelayed ==
    \A r \in DOMAIN rq :
        (Retrying(rev) /\ Both503(rq[r]) /\ Terminal(rq[r]))
        => /\ NumCalls(r) = 2
           /\ rq[r].pc = "responded"
           /\ rq[r].resp.status =
                 IF rev = "part_001" /\ BeginsWithLt(rq[r].upstreamText) THEN 502 ELSE 503
           /\ rev = "part_001" => /\ rq[r].resp.ctype = "json"
                                  /\ rq[r].resp.body[2].upstreamStatus = Num("503")
           /\ rev = "server1" => rq[r].resp.ctype = "text"

C1_Witness ==
    \E r \in DOMAIN rq :
        /\ rev = "part_001" /\ Both503(rq[r]) /\ rq[r].pc = "responded"
        /\ NumCalls(r) = 2 /\ rq[r].resp.status = 503

Is4xx(status) == status >= 400 /\ status < 500

\* the client response holds the complete upstream body text
CarriesBody(resp, text) ==
    \/ resp.ctype = "text" /\ resp.body = Text(text)
    \/ /\ resp.ctype = "json" /\ resp.body[1] = "obj"
       /\ "upstreamBody" \in DOMAIN resp.body[2]
       /\ resp.body[2].upstreamBody = Text(text)

\* C2 as stated: for every upstream 4xx response, whatever its body text, the
\* client response has the upstream status and the complete upstream body.
C2_AsStated ==
    \A r \in DOMAIN rq :
        (/\ rev \in {"part_001", "server1"} /\ Terminal(rq[r])
         /\ Is4xx(rq[r].upstream.status) /\ rq[r].upstream.readable)
        => /\ rq[r].resp.status = rq[r].upstream.status
           /\ CarriesBody(rq[r].resp, rq[r].upstream.text)

\* C2 amended: in part_001 and server1, an upstream 4xx response whose body
\* text is non-empty and (in part_001) not HTML-shaped reaches the client with
\* the upstream status and the complete body text (field upstreamBody of the
\* JSON envelope in part_001, text/plain body in server1).  An HTML-shaped body
\* is answered by part_001 with 502 and a preview cut to 2000 characters; an
\* empty body keeps the status, server1 sending a placeholder text instead.
C2_4xxPassThrough ==
    \A r \in DOMAIN rq :
        (/\ rev \in {"part_001", "server1"} /\ Terminal(rq[r])
         /\ Is4xx(rq[r].upstream.status) /\ rq[r].upstream.readable)
        => LET q == rq[r]
               t == q.upstream.text
           IN  IF rev = "part_001" /\ BeginsWithLt(t)
               THEN /\ q.resp.status = 502
                    /\ q.resp.body[2].upstreamPreview = Text(Slice0(t, 2000))
                    /\ q.resp.body[2].upstreamStatus = Num(ToString(q.upstream.status))
               ELSE /\ q.resp.status = q.upstream.status
                    /\ t # <<>> => CarriesBody(q.resp, t)
                    /\ (t = <<>> /\ rev = "part_001") => CarriesBody(q.resp, t)
                    /\ (t = <<>> /\ rev = "server1") =>
                          q.resp.body = Str("Upstream returned status " \o ToString(q.upstream.status))

C2_Witness ==
    \E r \in DOMAIN rq :
        /\ rev = "part_001" /\ rq[r].pc = "responded"
        /\ rq[r].upstream.status = 429 /\ rq[r].upstream.readable
        /\ rq[r].upstream.text = << <<"x", 2500>> >>
        /\ rq[r].resp.status = 429
        /\ CarriesBody(rq[r].resp, rq[r].upstream.text)

\* attempts started so far for request r
Started(q) == Len(q.outcomes) + (IF q.pc = "calling" THEN 1 ELSE 0)

Retryable(o) == o.kind = "throw" \/ o.status >= 500

\* C3: in fetchWithTimeoutAndRetry an attempt answered with a status below 500
\* ends the loop (no further outbound call; a first-attempt 4xx gives exactly 1
\* call); a further attempt starts only after an attempt that threw or was
\* answered >= 500, and only while the attempt index is below the retry bound.
C3_Non5xxEndsLoop ==
    \A r \in DOMAIN rq :
        (Retrying(rev) /\ rq[r].outcomes # <<>>)
        => LET q == rq[r]
               n == Len(q.outcomes)
           IN  /\ NumCalls(r) = Started(q)
               /\ \A i \in 1..n :
                     ~Retryable(q.outcomes[i])
                     => /\ i = n
                        /\ q.pc \notin {"calling", "backoff"}
                        /\ NumCalls(r) = i
               /\ \A i \in 1..(Started(q) - 1) :
                     /\ Retryable(q.outcomes[i])
                     /\ i - 1 < MaxRetries
               /\ q.pc = "backoff" => (Retryable(q.outcomes[n]) /\ q.attempt < MaxRetries)

C3_Witness ==
    \E r \in DOMAIN rq :
        /\ Retrying(rev) /\ rq[r].pc = "responded"
        /\ rq[r].outcomes = <<Answered(429)>>
        /\ NumCalls(r) = 1 /\ rq[r].resp.status = 429

IsPost(q) == q.method = "POST" /\ q.path = "/api/myapi"

\* C4: when OPENROUTER_API_KEY is absent or empty, every POST /api/myapi is
\* answered 500 with a JSON body holding an error string, and no outbound call
\* is ever made for it.
C4_MissingKeyFailsFast ==
    \A r \in DOMAIN rq :
        (~Truthy(key) /\ IsPost(rq[r]))
        => /\ CallsOf(r) = {}
           /\ rq[r].pc \in {"received", "responded"}
           /\ rq[r].pc = "responded"
              => /\ rq[r].resp.status = 500
                 /\ rq[r].resp.ctype = "json"
                 /\ rq[r].resp.body[1] = "obj"
                 /\ rq[r].resp.body[2].error[1] = "str"
                 /\ rq[r].resp.body[2].error[2] # ""

C4_Witness ==
    \E r \in DOMAIN rq :
        /\ key = Str("") /\ IsPost(rq[r]) /\ Truthy(Get(BodyOf(rq[r]), "prompt"))
        /\ rq[r].pc = "responded" /\ rq[r].resp.status = 500 /\ calls = {}

\* C5: in the revisions that classify HTML (part_001, part_002, server2), a
\* final upstream body text that begins with '<' after trimming is answered
\* 502 with the JSON envelope {ok: false, upstreamStatus, upstreamPreview}, the
\* preview being the first PreviewLen characters, whatever the upstream status.
C5_HtmlIs502 ==
    \A r \in DOMAIN rq :
        (/\ ClassifiesHtml(rev) /\ Terminal(rq[r])
         /\ rq[r].upstream.readable /\ BeginsWithLt(rq[r].upstream.text))
        => LET q == rq[r]
               t == q.upstream.text
           IN  /\ q.pc = "responded"
               /\ q.resp.status = 502
               /\ q.resp.ctype = "json"
               /\ q.resp.body[2].ok = Bool("false")
               /\ q.resp.body[2].upstreamStatus = Num(ToString(q.upstream.status))
               /\ q.resp.body[2].upstreamPreview[1] = "text"
               /\ TLen(q.resp.body[2].upstreamPreview[2]) <= 2000
               /\ TLen(q.resp.body[2].upstreamPreview[2]) =
                     IF TLen(t) < PreviewLen(rev) THEN TLen(t) ELSE PreviewLen(rev)
               /\ q.resp.body[2].upstreamPreview[2] = Slice0(t, PreviewLen(rev))

C5_Witness ==
    \E r \in DOMAIN rq :
        /\ rev = "part_001" /\ rq[r].pc = "responded"
        /\ rq[r].upstream.status = 200
        /\ rq[r].upstream.text = << <<" ", 2>>, <<"<", 1>>, <<"x", 2500>> >>
        /\ rq[r].resp.status = 502
        /\ TLen(rq[r].resp.body[2].upstreamPreview[2]) = 2000

\* C6: (all revisions but part_000) for every upstream response with a 2xx
\* status whose body is not HTML-shaped the handler does not raise and the
\* client response has status exactly 200: the parsed value when the text
\* parses as JSON, null when the text is empty, and otherwise an envelope
\* holding the whole raw text under the field raw.
C6_SuccessIs200 ==
    \A r \in DOMAIN rq :
        (/\ rev # "part_000" /\ Terminal(rq[r])
         /\ IsOk(rq[r].upstream.status) /\ ~BeginsWithLt(rq[r].upstream.text))
        => LET q == rq[r]
               t == q.upstream.text
           IN  /\ q.pc = "responded"
               /\ q.resp.status = 200
               /\ q.resp.ctype = "json"
               /\ t = <<>> => q.resp.body = Null
               /\ (t # <<>> /\ JsonParse(t).ok) => q.resp.body = JsonParse(t).value
               /\ (t # <<>> /\ ~JsonParse(t).ok)
                  => /\ q.resp.body[1] = "obj"
                     /\ q.resp.body[2].raw = Text(t)

C6_Witness ==
    \E r \in DOMAIN rq :
        /\ rev = "part_001" /\ rq[r].pc = "responded"
        /\ rq[r].upstream.status = 201
        /\ rq[r].upstream.text = << <<"x", 2500>> >>
        /\ rq[r].resp.status = 200
        /\ rq[r].resp.body[2].raw = Text(rq[r].upstream.text)

InTrace(q, st) == \E i \in 1..Len(q.trace) : q.trace[i] = st

HasPayloadKey(b) == "model" \in DOMAIN b \/ "messages" \in DOMAIN b

\* C7 as stated: every inbound body that contains a model key or a messages
\* key, with any value, is sent upstream unchanged.
C7_AsStated ==
    \A r \in DOMAIN rq :
        (InTrace(rq[r], "NORMALIZED") /\ HasPayloadKey(BodyOf(rq[r])))
        => /\ rq[r].payload = BodyOf(rq[r])
           /\ \A c \in CallsOf(r) : c.body = BodyOf(rq[r])

\* C7 amended: an inbound body whose messages value is truthy, or (in every
\* revision but part_000, which tests messages only) whose model value is
\* truthy, is sent upstream unchanged; a body whose model / messages values
\* are all falsy (empty string, null, 0, false) is normalized like a body
\* lacking them, so the payload sent is a synthesized one, not the body.
C7_TruthyPassThrough ==
    \A r \in DOMAIN rq :
        InTrace(rq[r], "NORMALIZED")
        => LET b == BodyOf(rq[r])
               through == \/ Truthy(Get(b, "messages"))
                          \/ rev # "part_000" /\ Truthy(Get(b, "model"))
           IN  /\ through => /\ rq[r].payload = b
                             /\ \A c \in CallsOf(r) : c.body = b
               /\ (HasPayloadKey(b) /\ ~through)
                  => /\ rq[r].payload # b
                     /\ rq[r].payload.messages[1] = "arr"
                     /\ Len(rq[r].payload.messages[2]) = 1
                     /\ rq[r].payload.messages[2][1].role = "user"

C7_Witness ==
    \E r \in DOMAIN rq :
        /\ rev = "part_001" /\ rq[r].pc = "calling"
        /\ BodyOf(rq[r]) = [model |-> Str("m")]
        /\ rq[r].payload = BodyOf(rq[r])
        /\ \E c \in CallsOf(r) : c.body = BodyOf(rq[r])

\* the parts of C8 that do not concern the message content
SynthesizedRest(b, p) ==
    /\ p.messages[1] = "arr"
    /\ Len(p.messages[2]) = 1
    /\ p.messages[2][1].role = "user"
    /\ p.max_tokens = (IF Truthy(Get(b, "max_tokens")) THEN b.max_tokens ELSE Num("300"))
    /\ p.temperature = (IF Get(b, "temperature")[1] = "num" THEN b.temperature ELSE Num("0.2"))
    /\ "image_url" \in DOMAIN p <=> Truthy(Get(b, "image_url"))
    /\ "image_url" \in DOMAIN p => p.image_url = b.image_url
    /\ "image_base64" \in DOMAIN p <=> Truthy(Get(b, "image_base64"))
    /\ "image_base64" \in DOMAIN p => p.image_base64 = b.image_base64

\* C8 as stated: for a body lacking model and messages the single user
\* message holds String(prompt), and "Hello" when prompt is absent.
C8_AsStated ==
    \A r \in DOMAIN rq :
        (rev # "part_000" /\ InTrace(rq[r], "NORMALIZED") /\ ~HasPayloadKey(BodyOf(rq[r])))
        => LET b == BodyOf(rq[r])
               p == rq[r].payload
           IN  /\ SynthesizedRest(b, p)
               /\ p.messages[2][1].content =
                     IF "prompt" \in DOMAIN b THEN StringOf(b.prompt) ELSE "Hello"

\* C8 amended: (all revisions but part_000) for a body lacking model and
\* messages the payload has exactly one message, role "user", whose content is
\* String(prompt) when prompt is truthy and "Hello" when prompt is absent or
\* falsy (empty string, 0, null, false); max_tokens is body.max_tokens or 300;
\* temperature is body.temperature when it is a number (0 included), else 0.2;
\* image_url / image_base64 are in the payload exactly when truthy in the body.
C8_Synthesized ==
    \A r \in DOMAIN rq :
        (rev # "part_000" /\ InTrace(rq[r], "NORMALIZED") /\ ~HasPayloadKey(BodyOf(rq[r])))
        => LET b == BodyOf(rq[r])
               p == rq[r].payload
           IN  /\ SynthesizedRest(b, p)
               /\ p.messages[2][1].content =
                     IF Truthy(Get(b, "prompt")) THEN StringOf(b.prompt) ELSE "Hello"

C8_Witness ==
    \E r \in DOMAIN rq :
        /\ rev = "part_001" /\ rq[r].pc = "calling"
        /\ BodyOf(rq[r]) = [temperature |-> Num("0")]
        /\ rq[r].payload.temperature = Num("0")
        /\ rq[r].payload.messages[2][1].content = "Hello"

CorsHeaderNames == {"Access-Control-Allow-Origin", "Access-Control-Allow-Methods",
                    "Access-Control-Allow-Headers"}

\* C9: every OPTIONS request, on any route and from any origin, is answered by
\* the middleware with 204 and an empty body, the CORS headers being set, and
\* nothing else runs for it: no key check, no normalization, no outbound call.
C9_PreflightShortCircuits ==
    \A r \in DOMAIN rq :
        rq[r].method = "OPTIONS"
        => /\ rq[r].pc = "responded"
           /\ rq[r].resp.status = 204
           /\ rq[r].resp.body = Str("")
           /\ CorsHeaderNames \subseteq DOMAIN rq[r].hdrs
           /\ rq[r].trace = <<>>
           /\ rq[r].payload = EmptyObj
           /\ rq[r].h2.promise = "none"
           /\ CallsOf(r) = {}

C9_Witness ==
    \E r \in DOMAIN rq :
        /\ rq[r].method = "OPTIONS" /\ rq[r].path = "/api/myapi"
        /\ rq[r].origin = Str("https://evil.example")
        /\ rq[r].resp.status = 204
        /\ rq[r].hdrs["Access-Control-Allow-Origin"] = "*"

AllThrew(q) == /\ Len(q.outcomes) = MaxRetries + 1
               /\ \A i \in 1..Len(q.outcomes) : q.outcomes[i].kind = "throw"

\* C10: in the retrying revisions, a throw or a timeout of the first attempt
\* leads to the retry, not to a response; when every attempt failed at the
\* network level exactly 1 + MaxRetries outbound calls were made, the error of
\* the last attempt is the one thrown out of fetchWithTimeoutAndRetry, and the
\* client gets 502 with a JSON body whose error field is String(last error).
C10_LastErrorPropagates ==
    \A r \in DOMAIN rq :
        Retrying(rev)
        => LET q == rq[r]
               n == Len(q.outcomes)
           IN  /\ (n = 1 /\ q.outcomes[1].kind = "throw")
                  => /\ q.pc \in {"backoff", "calling"}
                     /\ q.resp = NoResp
                     /\ NumCalls(r) = IF q.pc = "backoff" THEN 1 ELSE 2
               /\ AllThrew(q)
                  => /\ q.pc = "aborted"
                     /\ NumCalls(r) = 1 + MaxRetries
                     /\ q.lastErr = q.outcomes[n].err
                     /\ q.resp.status = 502
                     /\ q.resp.ctype = "json"
                     /\ q.resp.body[2].error = Str(StringOfErr(q.outcomes[n].err))

C10_Witness ==
    \E r \in DOMAIN rq :
        /\ Retrying(rev) /\ rq[r].pc = "aborted"
        /\ rq[r].outcomes = <<Threw(AbortError), Threw([name |-> "Error", message |-> "ECONNRESET"])>>
        /\ NumCalls(r) = 2
        /\ rq[r].resp.body[2].error = Str("Error: ECONNRESET")

\* C11 as stated: (revisions with a per-attempt timeout, part_001 and server1)
\* every POST /api/myapi that reached the handler eventually gets a response,
\* whatever the upstream does.
C11_AsStated ==
    \A r \in ReqIds :
        (Retrying(rev) /\ rq[r].pc = "received") ~> Terminal(rq[r])

\* the state the request of C11 stays in: the upstream sent its status line and
\* headers, the abort timer of the attempt was cleared on their arrival, and
\* the handler awaits upstream.text() with no timer armed and no response sent
C11_Witness ==
    \E r \in ReqIds :
        /\ Retrying(rev) /\ rq[r].pc = "reading"
        /\ rq[r].timers = {} /\ rq[r].resp = NoResp
        /\ ~ENABLED AttemptTimesOut(r)

\* the same scheduling, with every body read assumed to settle (the upstream
\* ends or breaks each body it has begun)
BodyEndsSpec == FairSpec /\ \A r \in ReqIds : WF_vars(ReadBody(r))

\* under BodyEndsSpec every POST of the retrying revisions is answered; in the
\* HTTP/2 revision, whose timer also covers the body, under FairSpec already
AnsweredOnceBodyEnds ==
    \A r \in ReqIds :
        ((Retrying(rev) \/ UsesHttp2(rev)) /\ rq[r].pc = "received") ~> Terminal(rq[r])

\* what request q must send upstream, told from its own inbound body alone
OwnPayload(q, p) ==
    LET b == BodyOf(q) IN
    IF Truthy(Get(b, "messages")) \/ (rev # "part_000" /\ Truthy(Get(b, "model")))
    THEN p = b
    ELSE /\ p.messages[1] = "arr"
         /\ p.messages[2][1].content =
               (IF Truthy(Get(b, "prompt")) THEN StringOf(b.prompt) ELSE "Hello")

\* C12: with two requests in flight at once, in every reachable state: the
\* outbound calls made for one inbound request number at most 1 + MaxRetries
\* (exactly attempt + 1 once the first call is made, so at most 2), and exactly
\* 1 in the revisions without retry once the call is made; every call carries
\* the id of one inbound request and an attempt index no other call of that
\* request has; all calls of a request have the same url, headers and body,
\* which is the payload normalized from that request's own inbound body.
C12_BoundedOwnCalls ==
    /\ \A r \in DOMAIN rq :
          /\ NumCalls(r) <= 1 + MaxRetries
          /\ ~Retrying(rev) => NumCalls(r) <= 1
          /\ rq[r].pc \in {"calling", "backoff", "reading"} => NumCalls(r) = rq[r].attempt + 1
          /\ (~Retrying(rev) /\ rq[r].pc \in {"calling", "reading"}) => NumCalls(r) = 1
          /\ {c.attempt : c \in CallsOf(r)} = 0..(NumCalls(r) - 1)
    /\ \A c \in calls :
          /\ c.req \in DOMAIN rq
          /\ c.body = rq[c.req].payload
          /\ OwnPayload(rq[c.req], c.body)
          /\ c.headers["Authorization"] = "Bearer " \o key[2]
          /\ c.headers["Content-Type"] = "application/json"
    /\ \A c, e \in calls :
          c.req = e.req => (c.body = e.body /\ c.headers = e.headers /\ c.url = e.url)

\* both requests in flight with different payloads, one of them on its retry
C12_Witness ==
    /\ Retrying(rev)
    /\ rq["r1"].pc = "calling" /\ rq["r1"].attempt = 1
    /\ rq["r2"].pc = "calling" /\ rq["r2"].attempt = 0
    /\ rq["r1"].payload # rq["r2"].payload
    /\ Cardinality(calls) = 3
    /\ \E c \in CallsOf("r1") : c.attempt = 1 /\ c.body = rq["r1"].payload

\* the Origin header is one of the configured origins
Listed(origin) == origin[1] = "str" /\ origin[2] \in ALLOWED_ORIGINS

\* C13: in the allow-list revisions (part_001, server1), for every request
\* that passed the middleware (whatever its method, route and outcome): a
\* listed Origin is echoed in Access-Control-Allow-Origin with
\* Access-Control-Allow-Credentials "true"; an absent or unlisted Origin gets
\* Access-Control-Allow-Origin "*" and no Access-Control-Allow-Credentials
\* header; so "*" never comes with credentials.
C13_AllowListCors ==
    \A r \in DOMAIN rq :
        (AllowList(rev) /\ rq[r].pc # "idle")
        => LET h == rq[r].hdrs
               o == rq[r].origin
           IN  /\ "Access-Control-Allow-Origin" \in DOMAIN h
               /\ Listed(o) => /\ h["Access-Control-Allow-Origin"] = o[2]
                               /\ "Access-Control-Allow-Credentials" \in DOMAIN h
                               /\ h["Access-Control-Allow-Credentials"] = "true"
               /\ ~Listed(o) => /\ h["Access-Control-Allow-Origin"] = "*"
                                /\ "Access-Control-Allow-Credentials" \notin DOMAIN h
               /\ ~(/\ h["Access-Control-Allow-Origin"] = "*"
                    /\ "Access-Control-Allow-Credentials" \in DOMAIN h)

\* an upstream answer relayed to an unlisted origin: wildcard, no credentials
C13_Witness ==
    \E r \in DOMAIN rq :
        /\ rev = "part_001" /\ rq[r].pc = "responded" /\ IsPost(rq[r])
        /\ rq[r].origin = Str("https://evil.example")
        /\ rq[r].resp.status = 200
        /\ rq[r].hdrs["Access-Control-Allow-Origin"] = "*"
        /\ "Access-Control-Allow-Credentials" \notin DOMAIN rq[r].hdrs

\* the arrows of the per-request state machine
MachineSteps == {<<"RECEIVED", "NORMALIZED">>, <<"NORMALIZED", "CALLING">>,
                 <<"CALLING", "RETRYING">>, <<"RETRYING", "CALLING">>,
                 <<"CALLING", "CLASSIFYING">>, <<"CLASSIFYING", "RESPONDED">>,
                 <<"CALLING", "ABORTED">>}

\* the history t starts at RECEIVED and takes only the arrows in steps
Follows(t, steps) ==
    /\ t # <<>> => t[1] = "RECEIVED"
    /\ \A i \in 1..(Len(t) - 1) : <<t[i], t[i + 1]>> \in steps

\* the arrows of the machine, and the one a missing API key adds
StepsWithFailFast == MachineSteps \cup {<<"RECEIVED", "RESPONDED">>}

Count(t, st) == Len(SelectSeq(t, LAMBDA x : x = st))

\* the last state of the history ("" when it is empty)
LastOf(t) == IF t = <<>> THEN "" ELSE t[Len(t)]

\* the k-th RETRYING of t comes after at most k CALLING: none after the last
\* permitted attempt
RetriesInBound(t) ==
    /\ Count(t, "RETRYING") <= MaxRetries
    /\ Count(t, "CALLING") <= MaxRetries + 1
    /\ ~Retrying(rev) => Count(t, "RETRYING") = 0

\* what a request that ended in a terminal state was answered with
TerminalsAnswered(q) ==
    /\ (q.pc = "aborted") <=> LastOf(q.trace) = "ABORTED"
    /\ (q.pc = "responded" /\ IsPost(q)) <=> LastOf(q.trace) = "RESPONDED"
    /\ Terminal(q) <=> q.resp # NoResp
    /\ \A i \in 1..(Len(q.trace) - 1) : q.trace[i] \notin {"RESPONDED", "ABORTED"}
    /\ q.pc = "aborted" => /\ q.resp.status = 502
                           /\ q.resp.ctype = "json"
                           /\ q.resp.body[1] = "obj"
                           /\ q.lastErr # NoError

\* C14 as stated: every POST takes only the arrows RECEIVED -> NORMALIZED ->
\* CALLING -> {RETRYING -> CALLING}* -> CLASSIFYING -> RESPONDED and CALLING ->
\* ABORTED, so that every request that reaches RESPONDED went through
\* NORMALIZED, CALLING and CLASSIFYING.
C14_AsStated ==
    \A r \in DOMAIN rq :
        IsPost(rq[r])
        => /\ Follows(rq[r].trace, MachineSteps)
           /\ RetriesInBound(rq[r].trace)
           /\ TerminalsAnswered(rq[r])

\* C14 amended: every POST takes only the arrows of the state machine, plus
\* RECEIVED -> RESPONDED, taken exactly when the API key is missing (answer
\* 500, no normalization, no call); every request that reaches RESPONDED with
\* the key configured went through NORMALIZED, CALLING and CLASSIFYING in that
\* order; RETRYING occurs only between two CALLING, at most MaxRetries times
\* and never after the last permitted attempt (never in the revisions without
\* retry); ABORTED is reached only from a caught exception of the call or of
\* the body read and is answered 502 with a JSON envelope.
C14_StateMachine ==
    \A r \in DOMAIN rq :
        IsPost(rq[r])
        => LET q == rq[r]
               t == q.trace
           IN  /\ Follows(t, StepsWithFailFast)
               /\ (Len(t) >= 2 /\ t[2] = "RESPONDED") <=> (q.pc = "responded" /\ ~Truthy(key))
               /\ (Truthy(key) /\ q.pc = "responded")
                  => /\ SubSeq(t, 1, 3) = <<"RECEIVED", "NORMALIZED", "CALLING">>
                     /\ SubSeq(t, Len(t) - 2, Len(t)) = <<"CALLING", "CLASSIFYING", "RESPONDED">>
               /\ RetriesInBound(t)
               /\ q.pc = "backoff" => (t[Len(t)] = "RETRYING" /\ Count(t, "CALLING") <= MaxRetries)
               /\ TerminalsAnswered(q)

\* a request answered after one retry
C14_Witness ==
    \E r \in DOMAIN rq :
        /\ rev = "part_001" /\ rq[r].pc = "responded"
        /\ rq[r].trace = <<"RECEIVED", "NORMALIZED", "CALLING", "RETRYING", "CALLING",
                           "CLASSIFYING", "RESPONDED">>

\* C15 as stated: in the HTTP/2 revision the client receives status 200 only
\* if a response-headers event carrying a 2xx status occurred for the request;
\* a stream that ended without any response-headers event is not answered 200.
C15_AsStated ==
    \A r \in DOMAIN rq :
        (UsesHttp2(rev) /\ IsPost(rq[r]) /\ Terminal(rq[r]))
        => /\ rq[r].resp.status = 200 => IsOk(rq[r].h2.status)
           /\ (rq[r].h2.status = 0 /\ rq[r].h2.stream = "ended") => rq[r].resp.status # 200

\* the stream ended with no response-headers event and no data: the promise
\* resolved with status 200 and the client was answered 200 with body null
C15_Witness ==
    \E r \in DOMAIN rq :
        /\ rev = "part_002" /\ rq[r].pc = "responded"
        /\ rq[r].h2.status = 0 /\ rq[r].h2.stream = "ended" /\ rq[r].h2.promise = "resolved"
        /\ rq[r].upstream.status = 200
        /\ rq[r].resp = Resp(200, "json", Null)

\* the other half of C15: once the promise of postHttp2ToOpenRouter is settled,
\* no later callback changes its outcome or the response sent to the client
SettledOnce ==
    [][\A r \in DOMAIN rq :
          rq[r].h2.promise \in {"resolved", "rejected"}
          => /\ rq'[r].h2.promise = rq[r].h2.promise
             /\ rq'[r].resp = rq[r].resp
             /\ rq'[r].pc = rq[r].pc]_vars

\* C16: in fetchWithTimeoutAndRetry (part_001, server1) at most one abort
\* timer is armed at any time, and it is the timer of the attempt in flight;
\* no timer is armed once an attempt has ended, whether by a response, by a
\* 5xx followed by the backoff or by a thrown error: none during the backoff,
\* none while the returned response is read, none after the function threw;
\* so the abort can fire only on the attempt that armed the timer.
C16_OneTimerPerAttempt ==
    \A r \in DOMAIN rq :
        Retrying(rev)
        => LET q == rq[r] IN
           /\ Cardinality(q.timers) <= 1
           /\ q.timers \subseteq {q.attempt}
           /\ q.pc = "calling" <=> q.timers # {}
           /\ Len(q.outcomes) > q.attempt => q.timers = {}
           /\ q.pc \in {"backoff", "reading", "responded", "aborted"} => q.timers = {}
           /\ ENABLED AttemptTimesOut(r) => (q.pc = "calling" /\ q.timers = {q.attempt})
           /\ \A i \in 1..Len(q.outcomes) : i - 1 \notin q.timers

\* the first attempt was aborted by its timer; the retry is in flight with a
\* timer of its own
C16_Witness ==
    \E r \in DOMAIN rq :
        /\ Retrying(rev) /\ rq[r].pc = "calling" /\ rq[r].attempt = 1
        /\ rq[r].outcomes = <<Threw(AbortError)>>
        /\ rq[r].timers = {1}

====
